---- MODULE Spec2Model ----
(***************************************************************************)
(* Model of the benchmark pipeline of static/app.js: runBenchmark (one     *)
(* query, several models), runBulkBenchmark (several queries x several     *)
(* models), the remote calls they issue and the result lists they build.   *)
(*                                                                         *)
(* Numbers.  A score is an integer 1..5.  A weight is an integer number of *)
(* percent, so calculateWeightedTotal is kept in hundredths: the code's    *)
(* 0.25 * 4 is 25 * 4 = 100 here.  A mean or a quotient is kept as the     *)
(* exact fraction [num, den] and compared by cross multiplication.         *)
(*                                                                         *)
(* History fields.  A field or variable whose name starts with h_ is not   *)
(* data of the program: it records what happened (which invocation pushed  *)
(* an entry, whether its scores came from getPlaceholderScores, which      *)
(* calls were issued) so that properties can speak about it.               *)
(***************************************************************************)
EXTENDS Integers, Sequences, FiniteSets, TLC

\* ------------------------------------------------------------- bounds
MaxModels == 2
MaxRuns == 2
MaxQueries == 2
MaxRequests == 3
MaxClock == 4

\* ---------------------------------------------------------- constants
ModelIds == <<"A", "B", "C", "D">>
availableModels == SubSeq(ModelIds, 1, MaxModels)
Runs == 1..MaxRuns

DimOrder == <<"faithfulness", "structure", "clarity", "analysisDepth",
              "contextAccuracy", "actionability", "conciseness">>
Dims == {DimOrder[k] : k \in 1..Len(DimOrder)}

\* The weights literal of calculateWeightedTotal, in percent.
benchmarkWeights ==
  [faithfulness |-> 25, structure |-> 10, clarity |-> 15, analysisDepth |-> 20,
   contextAccuracy |-> 15, actionability |-> 10, conciseness |-> 5]

\* The initial value of currentWeights (bulk benchmark), in percent.
defaultWeights ==
  [faithfulness |-> 25, structure |-> 10, clarity |-> 15, analysisDepth |-> 20,
   contextAccuracy |-> 15, actionability |-> 10, conciseness |-> 5]

NULL == "null"
UNDEFINED == "undefined"

\* ------------------------------------------------------------ helpers
RECURSIVE SeqOfSet(_, _)
\* The members of S in the order of the list all: the checked boxes in DOM order.
SeqOfSet(all, S) ==
  IF all = <<>> THEN <<>>
  ELSE IF Head(all) \in S THEN <<Head(all)>> \o SeqOfSet(Tail(all), S)
       ELSE SeqOfSet(Tail(all), S)

Range(s) == {s[k] : k \in 1..Len(s)}

AllOf(v) == [d \in Dims |-> v]

\* scores[key] || 0 : an absent dimension reads as undefined, which || turns to 0.
ScoreOrZero(scores, key) == IF key \in DOMAIN scores THEN scores[key] ELSE 0

RECURSIVE SumDims(_, _, _)
SumDims(scores, weights, k) ==
  IF k = 0 THEN 0
  ELSE SumDims(scores, weights, k - 1)
       + ScoreOrZero(scores, DimOrder[k]) * weights[DimOrder[k]]

\* calculateWeightedTotal(scores), in hundredths.
calculateWeightedTotal(scores) == SumDims(scores, benchmarkWeights, Len(DimOrder))

\* Score vectors a judge panel may return, and vectors Math.random() * 2 + 3 may
\* produce in getPlaceholderScores (each dimension lies in [3, 5)).
JudgeVectors == {AllOf(2), AllOf(4)}
getPlaceholderScores == {AllOf(3), AllOf(4)}

\* result.name of an object: undefined when it has no such property.
Field(object, name) == IF name \in DOMAIN object THEN object[name] ELSE UNDEFINED

\* ------------------------------------------------------------- state
VARIABLES
  currentResults,      \* NULL, or the data of the last successful query
  benchmarkResults,    \* NULL, or the list runBenchmark pushes to and renders
  resultsSection,      \* content of #benchmark-results-section: "empty" | "progress" | "results"
  rb,                  \* per runBenchmark invocation: its locals and its position
  calls,               \* the fetch calls in flight
  h_log,               \* per owner: the calls it has issued, in order
  toast,               \* the last message of showToast
  currentWeights,      \* weights of the bulk benchmark, in percent
  bulk,                \* the runBulkBenchmark invocation: its locals and its position
  bulkBenchmarkResults,\* NULL, or the ranking processBulkResults returned
  bulkResultsSection,  \* style.display of #bulk-results-section: "none" | "block"
  currentQuery,        \* NULL, or the text of the last successful query
  explanationCalls,    \* the /api/explain calls of generateExplanation in flight, in
                       \* the order they were issued: the query each was issued for
  explanationContainer,\* the explanation panel: display of #explanation-section, and
                       \* what #explanation-container shows, for which query
  bulkQueries,         \* the ids of the entries of bulkQueries
  bulkQueryList,       \* the ids of the .bulk-query-item elements of #bulk-query-list
  now,                 \* Date.now()
  download,            \* NULL, or the last file handed to downloadFile
  h_export,            \* the last invocation of an export handler: how it ended
  h_rendered           \* per runBenchmark invocation: the list it rendered

uiVars == <<currentQuery, explanationCalls, explanationContainer, bulkQueries,
            bulkQueryList, now, download, h_export>>

vars == <<currentResults, benchmarkResults, resultsSection, rb, calls, h_log, toast,
          currentWeights, bulk, bulkBenchmarkResults, bulkResultsSection, uiVars,
          h_rendered>>

rbVars == <<currentResults, benchmarkResults, resultsSection, rb>>
bulkVars == <<currentWeights, bulk, bulkBenchmarkResults, bulkResultsSection>>

\* Owner of a call: a runBenchmark invocation (1..MaxRuns) or the bulk run.
BULK == MaxRuns + 1
Owners == Runs \cup {BULK}

\* A fetch in flight.  phase "fetch": awaiting fetch(); phase "body": fetch() has
\* resolved and response.json() is awaited.  timer: the setTimeout that aborts the
\* call is armed.  explanation: the explanation in the body of an evaluate request
\* ("" in the other requests).
Call(owner, kind, q, m, timer, explanation) ==
  [owner |-> owner, kind |-> kind, q |-> q, m |-> m, phase |-> "fetch", timer |-> timer,
   explanation |-> explanation]

Awaiting(owner, kind) == \E c \in calls : c.owner = owner /\ c.kind = kind
CallOf(owner, kind) == CHOOSE c \in calls : c.owner = owner /\ c.kind = kind

\* What may end a call that is in flight.  The timer can fire only while it is
\* armed; fetch() can reject only while it is awaited; the other outcomes are
\* outcomes of response.json().
CanEnd(c, outcome) ==
  CASE outcome = "timeout" -> c.phase = "fetch" /\ c.timer
    [] outcome = "reject" -> c.phase = "fetch"
    [] OTHER -> c.phase = "body"

\* pc of an invocation: "idle" (not invoked), "rejected" (returned after a toast),
\* "explain" | "evaluate" | "delay" (the await it is suspended at), "done"
\* (rendered), "crashed" (a TypeError of a progress update ended it), "raised"
\* (an error of a remote call ended it).  h_resolved: the generate and evaluate
\* steps of the invocation that have resolved.
rbIdle ==
  [pc |-> "idle", selectedModels |-> <<>>, evaluationMethod |-> "",
   targetAudience |-> "", i |-> 0,
   completedSteps |-> 0, totalSteps |-> 0, explanation |-> "", h_testCases |-> 0,
   h_resolved |-> 0]

\* pc of the bulk run: "idle", "rejected", "query" | "explain" | "evaluate" (the
\* fetch it is suspended at), "done" (processBulkResults and displayBulkResults
\* have run).  modelResults lists the models in insertion order, which is the
\* order Object.entries gives.  progress: the last arguments of updateBulkProgress.
\* status: the class of each query item.
bulkIdle ==
  [pc |-> "idle", queries |-> <<>>, selectedModels |-> <<>>, qi |-> 0, mi |-> 0,
   completedSteps |-> 0, totalSteps |-> 0, modelResults |-> <<>>,
   progress |-> <<0, 0>>, status |-> <<>>, explanation |-> "", h_resolved |-> 0]

Init ==
  /\ currentResults = NULL
  /\ benchmarkResults = NULL
  /\ resultsSection = "empty"
  /\ rb = [r \in Runs |-> rbIdle]
  /\ calls = {}
  /\ h_log = [o \in Owners |-> <<>>]
  /\ toast = ""
  /\ currentWeights = defaultWeights
  /\ bulk = bulkIdle
  /\ bulkBenchmarkResults = NULL
  /\ bulkResultsSection = "none"
  /\ currentQuery = NULL
  /\ explanationCalls = <<>>
  /\ explanationContainer = [display |-> "none", shows |-> "empty", query |-> ""]
  /\ bulkQueries = <<0>>
  /\ bulkQueryList = <<0>>
  /\ now = 0
  /\ download = NULL
  /\ h_export = [handler |-> "", outcome |-> "", rendered |-> FALSE, source |-> NULL]
  /\ h_rendered = [r \in Runs |-> <<>>]

\* --------------------------------------------------- explorer: query
\* generateExplanation(query, data) up to its await: the panel is shown with the
\* loading spinner and the /api/explain call is issued.  With data null, reading
\* data.tables throws inside the try and the catch block shows the error.
generateExplanation(query, data) ==
  IF data = NULL
  THEN /\ explanationContainer' = [display |-> "block", shows |-> "error", query |-> query]
       /\ UNCHANGED explanationCalls
  ELSE /\ explanationContainer' = [display |-> "block", shows |-> "loading", query |-> query]
       /\ explanationCalls' = Append(explanationCalls, query)

\* executeQuery, from the response of /api/query on.  outcome "ok": the data and
\* the query text are stored and generateExplanation(query, data) is called;
\* "error": data.error, the explanation section is hidden.
executeQuery(query, outcome) ==
  /\ IF outcome = "ok"
     THEN /\ currentResults' = "data"
          /\ currentQuery' = query
          /\ toast' = "Query completed"
          /\ generateExplanation(query, "data")
     ELSE /\ explanationContainer' = [explanationContainer EXCEPT !.display = "none"]
          /\ UNCHANGED <<currentResults, currentQuery, toast, explanationCalls>>
  /\ UNCHANGED <<benchmarkResults, resultsSection, rb, calls, h_log>>
  /\ UNCHANGED bulkVars
  /\ UNCHANGED <<bulkQueries, bulkQueryList, now, download, h_export, h_rendered>>

\* The click on #refresh-explanation: generateExplanation(currentQuery, currentResults).
refreshExplanation ==
  /\ generateExplanation(currentQuery, currentResults)
  /\ UNCHANGED <<currentResults, currentQuery, toast>>
  /\ UNCHANGED <<benchmarkResults, resultsSection, rb, calls, h_log>>
  /\ UNCHANGED bulkVars
  /\ UNCHANGED <<bulkQueries, bulkQueryList, now, download, h_export, h_rendered>>

\* The k-th /api/explain call in flight ends: generateExplanation writes the
\* explanation, or the error, of its own request into #explanation-container.
explanationReturns(k, outcome) ==
  /\ k \in 1..Len(explanationCalls)
  /\ explanationContainer' =
       [explanationContainer EXCEPT
          !.shows = IF outcome = "ok" THEN "explanation" ELSE "error",
          !.query = explanationCalls[k]]
  /\ explanationCalls' = SubSeq(explanationCalls, 1, k - 1)
                          \o SubSeq(explanationCalls, k + 1, Len(explanationCalls))
  /\ UNCHANGED <<currentResults, currentQuery, toast>>
  /\ UNCHANGED <<benchmarkResults, resultsSection, rb, calls, h_log>>
  /\ UNCHANGED bulkVars
  /\ UNCHANGED <<bulkQueries, bulkQueryList, now, download, h_export, h_rendered>>

\* ------------------------------------------------------ runBenchmark
ERROR_TIMEOUT == "Error: Request timed out after 60 seconds"
ERROR_MESSAGE == "Error: Failed to fetch"
ERROR_GENERATING == "Error generating explanation"
EXPLANATION == "explanation text"

RECURSIVE Repeat(_, _)
Repeat(text, n) == IF n = 0 THEN "" ELSE text \o Repeat(text, n - 1)

\* An explanation of 3010 characters, and the explanations a model may return.
LONG_EXPLANATION == Repeat("0123456789", 301)
Explanations == {EXPLANATION, LONG_EXPLANATION}

\* evaluateWithLLM: explanation.length > 3000
\*   ? explanation.substring(0, 3000) + '... [truncated]' : explanation
maxExplanationChars == 3000
TRUNCATED == "... [truncated]"
truncatedExplanation(explanation) ==
  IF Len(explanation) > maxExplanationChars
  THEN SubSeq(explanation, 1, maxExplanationChars) \o TRUNCATED
  ELSE explanation

ExplainOutcomes == {"timeout", "reject", "bodyfail", "noexplanation", "ok"}
EvaluateOutcomes == {"timeout", "reject", "bodyfail", "noscores", "ok"}

\* getModelExplanation without its catch block: a failed call throws.
getModelExplanationThrows(outcome, text) ==
  IF outcome \in {"ok", "noexplanation"}
  THEN [threw |-> FALSE,
        value |-> IF outcome = "ok" THEN text ELSE ERROR_GENERATING]
  ELSE [threw |-> TRUE, value |-> ""]

\* getModelExplanation: what the awaited call returns for each way the fetch can
\* end.  text: result.explanation of an "ok" response.  threw: the error escapes
\* the function (its try/catch lets none escape).
getModelExplanation(outcome, text) ==
  CASE outcome = "ok" -> [threw |-> FALSE, value |-> text]
    [] outcome = "noexplanation" -> [threw |-> FALSE, value |-> ERROR_GENERATING]
    [] outcome = "timeout" -> [threw |-> FALSE, value |-> ERROR_TIMEOUT]
    [] OTHER -> [threw |-> FALSE, value |-> ERROR_MESSAGE]

\* result.individualJudges || []
JudgesOrEmpty(individualJudges) ==
  IF individualJudges = UNDEFINED THEN "empty" ELSE individualJudges

\* evaluateWithLLM: the scores object it returns.  judged: the scores of the
\* response; individualJudges: that property of the response; placeholder: what
\* getPlaceholderScores would return now.  A scores object is [vec, individualJudges]:
\* the seven dimensions, and the individualJudges property (UNDEFINED: not set).
evaluateWithLLM(outcome, judged, individualJudges, placeholder) ==
  CASE outcome = "ok" ->
         [threw |-> FALSE, h_placeholder |-> FALSE,
          scores |-> [vec |-> judged, individualJudges |-> JudgesOrEmpty(individualJudges)]]
    [] outcome = "noscores" ->
         [threw |-> FALSE, h_placeholder |-> TRUE,
          scores |-> [vec |-> placeholder, individualJudges |-> JudgesOrEmpty(individualJudges)]]
    [] OTHER ->
         [threw |-> FALSE, h_placeholder |-> TRUE,
          scores |-> [vec |-> placeholder, individualJudges |-> UNDEFINED]]

\* The entry runBenchmark pushes.
BenchmarkResult(r, modelId, explanation, ev) ==
  [model |-> modelId, explanation |-> explanation, scores |-> ev.scores,
   weightedTotal |-> calculateWeightedTotal(ev.scores.vec),
   h_run |-> r, h_placeholder |-> ev.h_placeholder]

RECURSIVE InsertSorted(_, _)
\* e placed after every entry that does not sort after it: a stable insertion.
InsertSorted(sorted, e) ==
  IF sorted = <<>> THEN <<e>>
  ELSE IF Head(sorted).weightedTotal >= e.weightedTotal
       THEN <<Head(sorted)>> \o InsertSorted(Tail(sorted), e)
       ELSE <<e>> \o sorted

RECURSIVE SortByWeightedTotal(_)
\* benchmarkResults.sort((a, b) => b.weightedTotal - a.weightedTotal): descending, stable.
SortByWeightedTotal(list) ==
  IF list = <<>> THEN <<>>
  ELSE InsertSorted(SortByWeightedTotal(SubSeq(list, 1, Len(list) - 1)), list[Len(list)])

\* document.querySelector('.progress-bar') finds the bar runBenchmark wrote.
ProgressBarPresent == resultsSection = "progress"

\* The next index of the for loop over selectedModels.
NextModel(i) == i + 1

\* A timeout that rejects the await without aborting the fetch: the call stays in
\* flight.
EndedUnlessTimedOut(c, outcome) == IF outcome = "timeout" THEN {} ELSE {c}

\* The calls that are over once the awaited call c has ended with the outcome: c
\* itself.  It has completed, or controller.abort() has cancelled it.
Ended(c, outcome) == {c}

\* The calls in flight and the log after the calls in over are over and c is issued.
Issue(over, c) ==
  /\ calls' = (calls \ over) \cup {c}
  /\ h_log' = [h_log EXCEPT ![c.owner] = Append(@, <<c.q, c.m, c.kind>>)]

Settle(over) ==
  /\ calls' = calls \ over
  /\ UNCHANGED h_log

Rejected(r, selectedModels, message) ==
  /\ toast' = message
  /\ rb' = [rb EXCEPT ![r] = [rbIdle EXCEPT !.pc = "rejected",
                                            !.selectedModels = selectedModels,
                                            !.h_testCases = IF currentResults = NULL THEN 0 ELSE 1]]
  /\ UNCHANGED <<currentResults, benchmarkResults, resultsSection, calls, h_log>>

\* The click on #run-benchmark, up to the first await: the checks, the progress
\* markup, the reset of benchmarkResults, and the first iteration's progress
\* update and explain call.  Invocations take the slots 1, 2, ... in order.
runBenchmark(r, checked, method, targetAudience) ==
  /\ rb[r].pc = "idle"
  /\ \A o \in Runs : o < r => rb[o].pc # "idle"
  /\ LET selectedModels == SeqOfSet(availableModels, checked) IN
     IF currentResults = NULL
     THEN Rejected(r, <<>>, "No query results! Go to Explorer and run a query first.")
     ELSE IF Len(selectedModels) = 0
     THEN Rejected(r, selectedModels, "Please select at least one model")
     ELSE IF Len(selectedModels) < 2
     THEN Rejected(r, selectedModels, "Select at least 2 models to compare")
     ELSE /\ resultsSection' = "progress"
          /\ benchmarkResults' = <<>>
          /\ rb' = [rb EXCEPT ![r] =
                      [pc |-> "explain", selectedModels |-> selectedModels,
                       evaluationMethod |-> method,
                       targetAudience |-> targetAudience, i |-> 1,
                       completedSteps |-> 1, totalSteps |-> Len(selectedModels) * 2,
                       explanation |-> "", h_testCases |-> 1, h_resolved |-> 0]]
          /\ Issue({}, Call(r, "explain", 1, 1, TRUE, ""))
          /\ UNCHANGED <<currentResults, toast>>
  /\ UNCHANGED bulkVars
  /\ UNCHANGED <<uiVars, h_rendered>>

\* fetch() resolves with the response: clearTimeout(timeoutId), then
\* response.json() is awaited.
fetchResponds(c) ==
  /\ c \in calls
  /\ c.phase = "fetch"
  /\ calls' = (calls \ {c}) \cup {[c EXCEPT !.phase = "body", !.timer = FALSE]}
  /\ UNCHANGED <<currentResults, benchmarkResults, resultsSection, rb, h_log, toast>>
  /\ UNCHANGED bulkVars
  /\ UNCHANGED <<uiVars, h_rendered>>

\* await getModelExplanation(...) returns, then up to the next await: the progress
\* update, and the evaluate call or the placeholder scores and the push.
explainReturns(r, outcome, text, placeholder) ==
  /\ rb[r].pc = "explain"
  /\ Awaiting(r, "explain")
  /\ CanEnd(CallOf(r, "explain"), outcome)
  /\ LET ret == getModelExplanation(outcome, text)
         me == rb[r]
         modelId == me.selectedModels[me.i]
         over == Ended(CallOf(r, "explain"), outcome)
     IN
     IF ret.threw
     THEN /\ rb' = [rb EXCEPT ![r].pc = "raised"]
          /\ Settle(over)
          /\ UNCHANGED <<benchmarkResults>>
     ELSE IF ~ProgressBarPresent
     THEN \* document.querySelector('.progress-bar') is null: TypeError
          /\ rb' = [rb EXCEPT ![r].pc = "crashed", ![r].completedSteps = @ + 1,
                              ![r].explanation = ret.value, ![r].h_resolved = @ + 1]
          /\ Settle(over)
          /\ UNCHANGED <<benchmarkResults>>
     ELSE IF me.evaluationMethod = "llm-judge"
     THEN /\ rb' = [rb EXCEPT ![r].pc = "evaluate", ![r].completedSteps = @ + 1,
                              ![r].explanation = ret.value, ![r].h_resolved = @ + 1]
          /\ Issue(over, Call(r, "evaluate", 1, me.i, TRUE, truncatedExplanation(ret.value)))
          /\ UNCHANGED <<benchmarkResults>>
     ELSE /\ rb' = [rb EXCEPT ![r].pc = "delay", ![r].completedSteps = @ + 1,
                              ![r].explanation = ret.value, ![r].h_resolved = @ + 2]
          /\ benchmarkResults' =
               Append(benchmarkResults,
                      BenchmarkResult(r, modelId, ret.value,
                        [h_placeholder |-> TRUE,
                         scores |-> [vec |-> placeholder, individualJudges |-> UNDEFINED]]))
          /\ Settle(over)
  /\ UNCHANGED <<currentResults, resultsSection, toast>>
  /\ UNCHANGED bulkVars
  /\ UNCHANGED <<uiVars, h_rendered>>

\* await evaluateWithLLM(...) returns: the push, then the 500 ms delay is awaited.
evaluateReturns(r, outcome, judged, individualJudges, placeholder) ==
  /\ rb[r].pc = "evaluate"
  /\ Awaiting(r, "evaluate")
  /\ CanEnd(CallOf(r, "evaluate"), outcome)
  /\ LET ev == evaluateWithLLM(outcome, judged, individualJudges, placeholder)
         me == rb[r]
     IN
     IF ev.threw
     THEN /\ rb' = [rb EXCEPT ![r].pc = "raised"]
          /\ UNCHANGED benchmarkResults
     ELSE /\ rb' = [rb EXCEPT ![r].pc = "delay", ![r].h_resolved = @ + 1]
          /\ benchmarkResults' =
               Append(benchmarkResults,
                      BenchmarkResult(r, me.selectedModels[me.i], me.explanation, ev))
  /\ Settle(Ended(CallOf(r, "evaluate"), outcome))
  /\ UNCHANGED <<currentResults, resultsSection, toast>>
  /\ UNCHANGED bulkVars
  /\ UNCHANGED <<uiVars, h_rendered>>

\* renderBenchmarkResults: the sort, and the results markup replaces the section.
renderBenchmarkResults ==
  /\ benchmarkResults' = SortByWeightedTotal(benchmarkResults)
  /\ resultsSection' = "results"

\* The 500 ms delay ends: the next iteration's progress update and explain call,
\* or, after the last model, renderBenchmarkResults().
delayEnds(r) ==
  /\ rb[r].pc = "delay"
  /\ LET me == rb[r] IN
     IF me.i < Len(me.selectedModels)
     THEN IF ~ProgressBarPresent
          THEN /\ rb' = [rb EXCEPT ![r].pc = "crashed", ![r].i = NextModel(me.i),
                                   ![r].completedSteps = @ + 1]
               /\ UNCHANGED <<benchmarkResults, resultsSection, calls, h_log>>
          ELSE /\ rb' = [rb EXCEPT ![r].pc = "explain", ![r].i = NextModel(me.i),
                                   ![r].completedSteps = @ + 1]
               /\ Issue({}, Call(r, "explain", 1, NextModel(me.i), TRUE, ""))
               /\ UNCHANGED <<benchmarkResults, resultsSection>>
     ELSE /\ rb' = [rb EXCEPT ![r].pc = "done"]
          /\ renderBenchmarkResults
          /\ UNCHANGED <<calls, h_log>>
  /\ UNCHANGED <<currentResults, toast>>
  /\ UNCHANGED bulkVars
  /\ UNCHANGED uiVars

\* -------------------------------------------------- runBulkBenchmark
QueryOutcomes == {"reject", "bodyfail", "error", "ok"}
BulkExplainOutcomes == {"reject", "bodyfail", "error", "ok"}
BulkEvaluateOutcomes == {"reject", "bodyfail", "error", "noscores", "ok"}

\* error.message of what the catch block receives.
ErrorMessage(outcome) ==
  CASE outcome = "reject" -> "Failed to fetch"
    [] outcome = "bodyfail" -> "Unexpected end of JSON input"
    [] OTHER -> "server error"

\* !q.error && q.scores.  An entry whose scores are undefined has no scores field.
ValidQuery(q) == "error" \notin DOMAIN q /\ "scores" \in DOMAIN q

RECURSIVE SumScores(_, _)
\* The sum over the entries of q.scores[dim] || 0.
SumScores(entries, dim) ==
  IF entries = <<>> THEN 0
  ELSE ScoreOrZero(Head(entries).scores, dim) + SumScores(Tail(entries), dim)

RECURSIVE WeightedSum(_, _, _)
RECURSIVE WeightSum(_, _, _)
\* total and weightSum of calculateWeightedScore over the dimensions the scores
\* define; the scores are fractions of one denominator, total is their numerators'.
WeightedSum(scores, weights, k) ==
  IF k = 0 THEN 0
  ELSE WeightedSum(scores, weights, k - 1)
       + (IF DimOrder[k] \in DOMAIN scores
          THEN scores[DimOrder[k]].num * weights[DimOrder[k]] ELSE 0)

WeightSum(scores, weights, k) ==
  IF k = 0 THEN 0
  ELSE WeightSum(scores, weights, k - 1)
       + (IF DimOrder[k] \in DOMAIN scores THEN weights[DimOrder[k]] ELSE 0)

\* The total divided by the number of dimensions instead of by weightSum.
WeightedScoreOverDimensions(scores, weights) ==
  LET total == WeightedSum(scores, weights, Len(DimOrder))
      den == (CHOOSE d \in DOMAIN scores : TRUE)
  IN [num |-> total, den |-> scores[den].den * Len(DimOrder)]

\* calculateWeightedScore(scores) with the weights at hand: total / weightSum, or 0.
WeightedScoreWith(scores, weights) ==
  LET total == WeightedSum(scores, weights, Len(DimOrder))
      weightSum == WeightSum(scores, weights, Len(DimOrder))
      den == (CHOOSE d \in DOMAIN scores : TRUE)
  IN IF weightSum > 0
     THEN [num |-> total, den |-> scores[den].den * weightSum]
     ELSE [num |-> 0, den |-> 1]

\* The comparator of an ascending sort.
NotAbove(a, b) == a.weightedScore.num * b.weightedScore.den
                    <= b.weightedScore.num * a.weightedScore.den

\* b.weightedScore - a.weightedScore <= 0 : a does not sort after b.
NotBelow(a, b) == a.weightedScore.num * b.weightedScore.den
                    >= b.weightedScore.num * a.weightedScore.den

RECURSIVE InsertRanked(_, _)
InsertRanked(sorted, e) ==
  IF sorted = <<>> THEN <<e>>
  ELSE IF NotBelow(Head(sorted), e)
       THEN <<Head(sorted)>> \o InsertRanked(Tail(sorted), e)
       ELSE <<e>> \o sorted

RECURSIVE SortByWeightedScore(_)
\* results.sort((a, b) => b.weightedScore - a.weightedScore): descending, stable.
SortByWeightedScore(list) ==
  IF list = <<>> THEN <<>>
  ELSE InsertRanked(SortByWeightedScore(SubSeq(list, 1, Len(list) - 1)), list[Len(list)])

\* The means taken over all the pairs of the model, a failed pair counting as 0.
ModelSummaryOverAllQueries(data, queryCount, weights) ==
  LET validQueries == SelectSeq(data.queries, ValidQuery)
      avgScores == [d \in Dims |-> [num |-> SumScores(validQueries, d),
                                    den |-> Len(data.queries)]]
  IN [model |-> data.model, avgScores |-> avgScores,
      weightedScore |-> WeightedScoreWith(avgScores, weights),
      queriesCompleted |-> Len(validQueries), totalQueries |-> queryCount,
      queries |-> data.queries, h_weights |-> weights]

\* The entry processBulkResults builds for one model with valid queries.
\* h_weights: the value of currentWeights when processBulkResults or
\* recalculateScores last computed the entry's weightedScore.
ModelSummary(data, queryCount, weights) ==
  LET validQueries == SelectSeq(data.queries, ValidQuery)
      avgScores == [d \in Dims |-> [num |-> SumScores(validQueries, d),
                                    den |-> Len(validQueries)]]
  IN [model |-> data.model, avgScores |-> avgScores,
      weightedScore |-> WeightedScoreWith(avgScores, weights),
      queriesCompleted |-> Len(validQueries), totalQueries |-> queryCount,
      queries |-> data.queries, h_weights |-> weights]

\* A model is kept only if every one of its queries is valid.
HasOnlyValidQueries(data) ==
  Len(SelectSeq(data.queries, ValidQuery)) = Len(data.queries) /\ Len(data.queries) # 0

\* The models processBulkResults keeps: those with a valid query.
HasValidQuery(data) == Len(SelectSeq(data.queries, ValidQuery)) # 0

RECURSIVE Summaries(_, _, _)
Summaries(modelResults, queryCount, weights) ==
  IF modelResults = <<>> THEN <<>>
  ELSE (IF HasValidQuery(Head(modelResults))
        THEN <<ModelSummary(Head(modelResults), queryCount, weights)>> ELSE <<>>)
       \o Summaries(Tail(modelResults), queryCount, weights)

processBulkResults(modelResults, queryCount, weights) ==
  SortByWeightedScore(Summaries(modelResults, queryCount, weights))

\* modelResults[modelId].queries.push(entry).  h_failed of an error entry: the call
\* whose failure the catch block received.
PushEntry(modelResults, mi, entry) ==
  [modelResults EXCEPT ![mi].queries = Append(@, entry)]

\* The end of runBulkBenchmark: processBulkResults, then displayBulkResults.
bulkFinish(b, over) ==
  LET results == processBulkResults(b.modelResults, Len(b.queries), currentWeights) IN
  /\ bulk' = [b EXCEPT !.pc = "done"]
  /\ bulkBenchmarkResults' = results
  /\ IF results = <<>>
     THEN toast' = "No results to display" /\ UNCHANGED bulkResultsSection
     ELSE bulkResultsSection' = "block" /\ UNCHANGED toast
  /\ Settle(over)

\* The next iteration of the loop over queries, or the end of the run.
bulkNextQuery(b, over) ==
  IF b.qi < Len(b.queries)
  THEN /\ bulk' = [b EXCEPT !.pc = "query", !.qi = b.qi + 1, !.status[b.qi + 1] = "running"]
       /\ Issue(over, Call(BULK, "query", b.qi + 1, 0, FALSE, ""))
       /\ UNCHANGED <<bulkBenchmarkResults, bulkResultsSection, toast>>
  ELSE bulkFinish(b, over)

\* After a pair: completedSteps++, updateBulkProgress, and the next model of the
\* query, or the query is marked completed and the next query starts.
bulkAfterPair(b, over) ==
  LET c == [b EXCEPT !.completedSteps = b.completedSteps + 1,
                     !.progress = <<b.completedSteps + 1, b.totalSteps>>] IN
  IF c.mi < Len(c.selectedModels)
  THEN /\ bulk' = [c EXCEPT !.pc = "explain", !.mi = c.mi + 1]
       /\ Issue(over, Call(BULK, "explain", c.qi, c.mi + 1, FALSE, ""))
       /\ UNCHANGED <<bulkBenchmarkResults, bulkResultsSection, toast>>
  ELSE bulkNextQuery([c EXCEPT !.status[c.qi] = "completed"], over)

BulkRejected(queryCount, selectedModels, message) ==
  /\ toast' = message
  /\ bulk' = [bulkIdle EXCEPT !.pc = "rejected", !.selectedModels = selectedModels,
                              !.queries = [k \in 1..queryCount |-> [index |-> k]]]
  /\ UNCHANGED <<bulkBenchmarkResults, bulkResultsSection, calls, h_log>>

\* The click on #run-bulk-benchmark, up to the first await.  queryCount: the query
\* items with text; workspaceId: the trimmed text of the workspace input.
runBulkBenchmark(queryCount, checked, workspaceId) ==
  /\ bulk.pc = "idle"
  /\ LET selectedModels == SeqOfSet(availableModels, checked)
         queries == [k \in 1..queryCount |-> [index |-> k]]
     IN
     IF queryCount = 0
     THEN BulkRejected(queryCount, <<>>, "Please add at least one query")
     ELSE IF Len(selectedModels) = 0
     THEN BulkRejected(queryCount, selectedModels, "Please select at least one model")
     ELSE IF workspaceId = ""
     THEN BulkRejected(queryCount, selectedModels,
                       "Please enter a Workspace ID in the Connection panel")
     ELSE /\ bulk' = [pc |-> "query", queries |-> queries,
                      selectedModels |-> selectedModels, qi |-> 1, mi |-> 0,
                      completedSteps |-> 0,
                      totalSteps |-> Len(queries) * Len(selectedModels),
                      modelResults |-> [k \in 1..Len(selectedModels) |->
                                          [model |-> selectedModels[k], queries |-> <<>>]],
                      progress |-> <<0, 0>>, explanation |-> "", h_resolved |-> 0,
                      status |-> [k \in 1..queryCount |-> IF k = 1 THEN "running" ELSE ""]]
          /\ bulkResultsSection' = "none"
          /\ Issue({}, Call(BULK, "query", 1, 0, FALSE, ""))
          /\ UNCHANGED <<bulkBenchmarkResults, toast>>
  /\ UNCHANGED <<currentWeights>>
  /\ UNCHANGED rbVars
  /\ UNCHANGED <<uiVars, h_rendered>>

\* The /api/query call of the current query ends.
bulkQueryReturns(outcome) ==
  /\ bulk.pc = "query"
  /\ Awaiting(BULK, "query")
  /\ CanEnd(CallOf(BULK, "query"), outcome)
  /\ IF outcome = "ok"
     THEN /\ bulk' = [bulk EXCEPT !.pc = "explain", !.mi = 1,
                                  !.progress = <<bulk.completedSteps, bulk.totalSteps>>]
          /\ Issue(Ended(CallOf(BULK, "query"), outcome),
                   Call(BULK, "explain", bulk.qi, 1, FALSE, ""))
          /\ UNCHANGED <<bulkBenchmarkResults, bulkResultsSection, toast>>
     ELSE bulkNextQuery([bulk EXCEPT !.status[bulk.qi] = "error"],
                        Ended(CallOf(BULK, "query"), outcome))
  /\ UNCHANGED <<currentWeights>>
  /\ UNCHANGED rbVars
  /\ UNCHANGED <<uiVars, h_rendered>>

\* The /api/explain call of the current pair ends.  text: explainResult.explanation.
bulkExplainReturns(outcome, text) ==
  /\ bulk.pc = "explain"
  /\ Awaiting(BULK, "explain")
  /\ CanEnd(CallOf(BULK, "explain"), outcome)
  /\ IF outcome = "ok"
     THEN /\ bulk' = [bulk EXCEPT !.pc = "evaluate", !.h_resolved = @ + 1,
                                  !.explanation = text,
                                  !.progress = <<bulk.completedSteps, bulk.totalSteps>>]
          /\ Issue(Ended(CallOf(BULK, "explain"), outcome),
                   Call(BULK, "evaluate", bulk.qi, bulk.mi, FALSE, text))
          /\ UNCHANGED <<bulkBenchmarkResults, bulkResultsSection, toast>>
     ELSE bulkAfterPair([bulk EXCEPT !.h_resolved = @ + 1, !.modelResults =
            PushEntry(@, bulk.mi, [queryIndex |-> bulk.queries[bulk.qi].index,
                                   error |-> ErrorMessage(outcome),
                                   h_failed |-> "explain"])],
            Ended(CallOf(BULK, "explain"), outcome))
  /\ UNCHANGED <<currentWeights>>
  /\ UNCHANGED rbVars
  /\ UNCHANGED <<uiVars, h_rendered>>

\* The /api/benchmark/evaluate call of the current pair ends.
bulkEvaluateReturns(outcome, judged) ==
  /\ bulk.pc = "evaluate"
  /\ Awaiting(BULK, "evaluate")
  /\ CanEnd(CallOf(BULK, "evaluate"), outcome)
  /\ LET queryIndex == bulk.queries[bulk.qi].index
         entry ==
           CASE outcome = "ok" ->
                  [queryIndex |-> queryIndex, explanation |-> bulk.explanation, scores |-> judged]
             [] outcome = "noscores" ->
                  [queryIndex |-> queryIndex, explanation |-> bulk.explanation]
             [] OTHER -> [queryIndex |-> queryIndex, error |-> ErrorMessage(outcome),
                          h_failed |-> "evaluate"]
     IN bulkAfterPair([bulk EXCEPT !.h_resolved = @ + 1,
                                   !.modelResults = PushEntry(@, bulk.mi, entry)],
                      Ended(CallOf(BULK, "evaluate"), outcome))
  /\ UNCHANGED <<currentWeights>>
  /\ UNCHANGED rbVars
  /\ UNCHANGED <<uiVars, h_rendered>>

\* ------------------------------------------- weights of the bulk ranking
\* The audience weight profiles of the scoring document, in percent.
developerWeights ==
  [faithfulness |-> 25, structure |-> 10, clarity |-> 15, analysisDepth |-> 20,
   contextAccuracy |-> 15, actionability |-> 10, conciseness |-> 5]
sreWeights ==
  [faithfulness |-> 25, structure |-> 8, clarity |-> 12, analysisDepth |-> 15,
   contextAccuracy |-> 12, actionability |-> 20, conciseness |-> 8]
analystWeights ==
  [faithfulness |-> 30, structure |-> 12, clarity |-> 18, analysisDepth |-> 25,
   contextAccuracy |-> 10, actionability |-> 5, conciseness |-> 0]
executiveWeights ==
  [faithfulness |-> 20, structure |-> 15, clarity |-> 25, analysisDepth |-> 15,
   contextAccuracy |-> 5, actionability |-> 15, conciseness |-> 5]

audienceWeights(audience) ==
  CASE audience = "sre" -> sreWeights
    [] audience = "analyst" -> analystWeights
    [] audience = "executive" -> executiveWeights
    [] OTHER -> developerWeights

RECURSIVE WeightsTotalTo(_, _)
WeightsTotalTo(weights, k) ==
  IF k = 0 THEN 0 ELSE WeightsTotalTo(weights, k - 1) + weights[DimOrder[k]]

\* total of updateWeightsTotal: the sum of the weight inputs.
WeightsTotal(weights) == WeightsTotalTo(weights, Len(DimOrder))

\* The class 'invalid' of #weights-total.
weightsTotalInvalid == WeightsTotal(currentWeights) # 100

\* Values the user leaves in the seven .weight-input fields (parseInt(value) || 0):
\* a profile that totals 100, and the default with faithfulness raised to 50.
WeightInputs == {sreWeights, [defaultWeights EXCEPT !.faithfulness = 50]}

\* updateWeightsTotal: an input or change event of a weight field.
updateWeightsTotal(inputs) ==
  /\ currentWeights' = [dim \in Dims |-> inputs[dim]]
  /\ UNCHANGED <<bulk, bulkBenchmarkResults, bulkResultsSection, calls, h_log, toast>>
  /\ UNCHANGED rbVars
  /\ UNCHANGED <<uiVars, h_rendered>>

\* recalculateScores: the click on #recalculate-scores.
recalculateScores ==
  /\ bulkBenchmarkResults # NULL
  /\ LET recalculated ==
           [k \in 1..Len(bulkBenchmarkResults) |->
              [bulkBenchmarkResults[k] EXCEPT
                 !.weightedScore = WeightedScoreWith(bulkBenchmarkResults[k].avgScores,
                                                     currentWeights),
                 !.h_weights = currentWeights]]
     IN /\ bulkBenchmarkResults' = SortByWeightedScore(recalculated)
        /\ bulkResultsSection' = IF recalculated = <<>> THEN bulkResultsSection ELSE "block"
  /\ toast' = "Scores recalculated"
  /\ UNCHANGED <<currentWeights, bulk, calls, h_log>>
  /\ UNCHANGED rbVars
  /\ UNCHANGED <<uiVars, h_rendered>>

\* What displayBulkResults renders of the results: the rows of the leaderboard and,
\* per query, the models of renderPerQueryResults.
displayBulkResults(results) ==
  [leaderboard |-> [k \in 1..Len(results) |->
                      [rank |-> k, model |-> results[k].model,
                       weightedScore |-> results[k].weightedScore,
                       avgScores |-> results[k].avgScores]],
   perQuery |-> UNION {{<<results[k].queries[j].queryIndex, results[k].model>> :
                          j \in 1..Len(results[k].queries)} : k \in 1..Len(results)}]

IndividualJudges == {UNDEFINED, "judges"}
EvaluationMethods == {"llm-judge", "placeholder"}

InProgress(r) == rb[r].pc \in {"explain", "evaluate", "delay"}

\* ------------------------------------------------------------ query list
\* The number of example queries loadExampleQueries adds.
exampleQueries == 5

\* addBulkQuery at the time id: the item with the id `bulk-query-${Date.now()}` is
\* appended to #bulk-query-list and {id, query} is pushed to bulkQueries.
AddedAt(list, id) == Append(list, id)

RECURSIVE RemoveFirst(_, _)
\* document.getElementById(queryId).remove(): the first element with the id goes.
RemoveFirst(list, queryId) ==
  IF list = <<>> THEN <<>>
  ELSE IF Head(list) = queryId THEN Tail(list)
       ELSE <<Head(list)>> \o RemoveFirst(Tail(list), queryId)

\* A click on Add Query, a millisecond or more after the last event.
addBulkQuery ==
  /\ now < MaxClock
  /\ now' = now + 1
  /\ bulkQueryList' = AddedAt(bulkQueryList, now')
  /\ bulkQueries' = AddedAt(bulkQueries, now')
  /\ UNCHANGED <<currentResults, benchmarkResults, resultsSection, rb, calls, h_log, toast>>
  /\ UNCHANGED bulkVars
  /\ UNCHANGED <<currentQuery, explanationCalls, explanationContainer, download,
                 h_export, h_rendered>>

\* removeBulkQuery(queryId), from the remove button of an item.
removeBulkQuery(queryId) ==
  /\ IF \E k \in 1..Len(bulkQueryList) : bulkQueryList[k] = queryId
     THEN /\ bulkQueryList' = RemoveFirst(bulkQueryList, queryId)
          /\ bulkQueries' = SelectSeq(bulkQueries, LAMBDA q : q # queryId)
     ELSE UNCHANGED <<bulkQueryList, bulkQueries>>
  /\ UNCHANGED <<currentResults, benchmarkResults, resultsSection, rb, calls, h_log, toast>>
  /\ UNCHANGED bulkVars
  /\ UNCHANGED <<currentQuery, explanationCalls, explanationContainer, now, download,
                 h_export, h_rendered>>

\* loadExampleQueries: the list and bulkQueries are cleared and addBulkQuery runs
\* once per example query in one forEach.  The clock ticks at most once during
\* the loop: the first sameMs additions read one Date.now(), the others the next.
loadExampleQueries(sameMs) ==
  /\ now + 2 <= MaxClock
  /\ LET ids == [k \in 1..exampleQueries |-> IF k <= sameMs THEN now + 1 ELSE now + 2] IN
     /\ bulkQueryList' = ids
     /\ bulkQueries' = ids
     /\ now' = ids[exampleQueries]
  /\ toast' = "Loaded 5 example queries"
  /\ UNCHANGED <<currentResults, benchmarkResults, resultsSection, rb, calls, h_log>>
  /\ UNCHANGED bulkVars
  /\ UNCHANGED <<currentQuery, explanationCalls, explanationContainer, download,
                 h_export, h_rendered>>

\* --------------------------------------------------------------- exports
\* How an invocation of an export handler ended: "toast" (nothing to export),
\* "threw" (an uncaught TypeError), "downloaded".  rendered: the results of a
\* finished runBenchmark were on the page; source: the list it read.
Exported(handler, outcome) ==
  h_export' = [handler |-> handler, outcome |-> outcome,
               rendered |-> resultsSection = "results" /\ \A r \in Runs : ~InProgress(r),
               source |-> benchmarkResults]

\* exportBenchmarkToJson: result.testCases.map(...) of an entry without testCases
\* throws; averageScores and averageWeightedTotal are read as they are.
exportBenchmarkToJson ==
  /\ IF benchmarkResults = NULL
     THEN /\ toast' = "No benchmark results to export"
          /\ Exported("exportBenchmarkToJson", "toast")
          /\ UNCHANGED download
     ELSE IF \E k \in 1..Len(benchmarkResults) : "testCases" \notin DOMAIN benchmarkResults[k]
     THEN /\ Exported("exportBenchmarkToJson", "threw")
          /\ UNCHANGED <<download, toast>>
     ELSE /\ download' =
               [filename |-> "benchmark-results.json",
                content |-> [k \in 1..Len(benchmarkResults) |->
                   [model |-> benchmarkResults[k].model,
                    averageScores |-> Field(benchmarkResults[k], "averageScores"),
                    averageWeightedTotal |-> Field(benchmarkResults[k], "averageWeightedTotal"),
                    testCases |-> benchmarkResults[k].testCases]]]
          /\ toast' = "Benchmark results exported"
          /\ Exported("exportBenchmarkToJson", "downloaded")
  /\ UNCHANGED <<currentResults, benchmarkResults, resultsSection, rb, calls, h_log>>
  /\ UNCHANGED bulkVars
  /\ UNCHANGED <<currentQuery, explanationCalls, explanationContainer, bulkQueries,
                 bulkQueryList, now, h_rendered>>

\* exportBenchmarkToCsv: result.averageScores.faithfulness of an entry without
\* averageScores throws, as does averageWeightedTotal.toFixed without that field.
exportBenchmarkToCsv ==
  /\ IF benchmarkResults = NULL
     THEN /\ toast' = "No benchmark results to export"
          /\ Exported("exportBenchmarkToCsv", "toast")
          /\ UNCHANGED download
     ELSE IF \E k \in 1..Len(benchmarkResults) :
                {"averageScores", "averageWeightedTotal"} \ DOMAIN benchmarkResults[k] # {}
     THEN /\ Exported("exportBenchmarkToCsv", "threw")
          /\ UNCHANGED <<download, toast>>
     ELSE /\ download' =
               [filename |-> "benchmark-results.csv",
                content |-> [k \in 1..Len(benchmarkResults) |->
                   [model |-> benchmarkResults[k].model,
                    averageScores |-> benchmarkResults[k].averageScores,
                    averageWeightedTotal |-> benchmarkResults[k].averageWeightedTotal]]]
          /\ toast' = "Benchmark results exported"
          /\ Exported("exportBenchmarkToCsv", "downloaded")
  /\ UNCHANGED <<currentResults, benchmarkResults, resultsSection, rb, calls, h_log>>
  /\ UNCHANGED bulkVars
  /\ UNCHANGED <<currentQuery, explanationCalls, explanationContainer, bulkQueries,
                 bulkQueryList, now, h_rendered>>

\* exportBulkToJson: the file holds currentWeights and bulkBenchmarkResults.
exportBulkToJson ==
  /\ IF bulkBenchmarkResults = NULL
     THEN /\ toast' = "No results to export"
          /\ UNCHANGED download
     ELSE /\ download' = [filename |-> "bulk-benchmark-results.json",
                          content |-> [weights |-> currentWeights,
                                       results |-> bulkBenchmarkResults]]
          /\ toast' = "Results exported"
  /\ h_export' = [handler |-> "exportBulkToJson",
                  outcome |-> IF bulkBenchmarkResults = NULL THEN "toast" ELSE "downloaded",
                  rendered |-> bulkResultsSection = "block",
                  source |-> bulkBenchmarkResults]
  /\ UNCHANGED <<currentResults, benchmarkResults, resultsSection, rb, calls, h_log>>
  /\ UNCHANGED bulkVars
  /\ UNCHANGED <<currentQuery, explanationCalls, explanationContainer, bulkQueries,
                 bulkQueryList, now, h_rendered>>

\* runBenchmark and runBulkBenchmark share no state but the toast, so a session
\* that uses both interleaves two sessions that use one each: Next explores a
\* session of either kind: the query that runBenchmark needs is run in a session
\* without a bulk run.  In Next an invocation of runBenchmark starts when no
\* other is in progress; SpecReentrant lifts that.
Next ==
  \/ currentResults = NULL /\ bulk.pc = "idle" /\ executeQuery("q1", "ok")
  \/ \E r \in Runs, checked \in SUBSET Range(availableModels), method \in EvaluationMethods :
        /\ bulk.pc = "idle"
        /\ \A o \in Runs : ~InProgress(o)
        /\ runBenchmark(r, checked, method, "developer")
  \/ \E c \in calls : fetchResponds(c)
  \/ \E r \in Runs, outcome \in ExplainOutcomes, placeholder \in getPlaceholderScores :
        explainReturns(r, outcome, EXPLANATION, placeholder)
  \/ \E r \in Runs, outcome \in EvaluateOutcomes, judged \in JudgeVectors,
        individualJudges \in IndividualJudges, placeholder \in getPlaceholderScores :
        evaluateReturns(r, outcome, judged, individualJudges, placeholder)
  \/ \E r \in Runs : delayEnds(r) /\ UNCHANGED h_rendered
  \/ \E queryCount \in 0..MaxQueries, checked \in SUBSET Range(availableModels),
        workspaceId \in {"", "workspace"} :
        /\ \A r \in Runs : rb[r].pc = "idle"
        /\ runBulkBenchmark(queryCount, checked, workspaceId)
  \/ \E outcome \in QueryOutcomes : bulkQueryReturns(outcome)
  \/ \E outcome \in BulkExplainOutcomes : bulkExplainReturns(outcome, EXPLANATION)
  \/ \E outcome \in BulkEvaluateOutcomes, judged \in JudgeVectors :
        bulkEvaluateReturns(outcome, judged)

Spec == Init /\ [][Next]_vars

\* Invocations of runBenchmark that overlap: the button stays enabled during a
\* run.  The remote outcomes are a subset of those of Spec.
NextReentrant ==
  \/ currentResults = NULL /\ bulk.pc = "idle" /\ executeQuery("q1", "ok")
  \/ \E r \in Runs, checked \in SUBSET Range(availableModels) :
        runBenchmark(r, checked, "llm-judge", "developer")
  \/ \E c \in calls : fetchResponds(c)
  \/ \E r \in Runs, outcome \in {"ok", "timeout"} : explainReturns(r, outcome, EXPLANATION, AllOf(3))
  \/ \E r \in Runs, outcome \in {"ok", "bodyfail"} :
        evaluateReturns(r, outcome, AllOf(4), "judges", AllOf(3))
  \/ \E r \in Runs : delayEnds(r) /\ UNCHANGED h_rendered

SpecReentrant == Init /\ [][NextReentrant]_vars

\* Score vectors for the sessions that study scoring: all 4; faithfulness 5 with
\* structure and clarity 3 (the same total as all 4 under the default weights);
\* all 4 without conciseness; all 5; all 5 with conciseness 1.
ScoringVectors ==
  {AllOf(4),
   [AllOf(4) EXCEPT !.faithfulness = 5, !.structure = 3, !.clarity = 3],
   [d \in Dims \ {"conciseness"} |-> 4],
   AllOf(5),
   [AllOf(5) EXCEPT !.conciseness = 1]}

\* result.individualJudges of a response: the scores of each judge of the panel.
\* In the second panel the second judge gives no conciseness.
JudgePanels ==
  {<<[model |-> "gpt-4", scores |-> AllOf(4)], [model |-> "gpt-5-chat", scores |-> AllOf(5)]>>,
   <<[model |-> "gpt-4", scores |-> AllOf(4)],
     [model |-> "gpt-5-chat", scores |-> [d \in Dims \ {"conciseness"} |-> 5]]>>}

RECURSIVE SumJudges(_, _)
\* total of formatEvaluatorNotes: the sum over the judges of judge.scores[dim.key] || 0.
SumJudges(individualJudges, dim) ==
  IF individualJudges = <<>> THEN 0
  ELSE ScoreOrZero(Head(individualJudges).scores, dim)
       + SumJudges(Tail(individualJudges), dim)

\* formatEvaluatorNotes(notes, individualJudges): the Avg column of the table of
\* judge scores, total / individualJudges.length per dimension; no table without
\* notes or without judges.
formatEvaluatorNotes(notes, individualJudges) ==
  IF notes = "" \/ Len(individualJudges) = 0 THEN <<>>
  ELSE [k \in 1..Len(DimOrder) |->
          [dim |-> DimOrder[k],
           avg |-> [num |-> SumJudges(individualJudges, DimOrder[k]),
                    den |-> Len(individualJudges)]]]

BulkScoringVectors == ScoringVectors \ {[AllOf(5) EXCEPT !.conciseness = 1]}

Audiences == {"developer", "analyst"}

\* Sessions that study scoring and ranking: every explain call of runBenchmark
\* succeeds, pairs of the bulk run may fail, and the weights are edited and the
\* scores recalculated at any moment.
NextScoring ==
  \/ currentResults = NULL /\ bulk.pc = "idle" /\ executeQuery("q1", "ok")
  \/ \E r \in Runs, targetAudience \in Audiences :
        /\ bulk.pc = "idle"
        /\ \A o \in Runs : ~InProgress(o)
        /\ runBenchmark(r, Range(availableModels), "llm-judge", targetAudience)
  \/ \E c \in calls : fetchResponds(c)
  \/ \E r \in Runs : explainReturns(r, "ok", EXPLANATION, AllOf(3))
  \/ \E r \in Runs, judged \in ScoringVectors, individualJudges \in JudgePanels :
        evaluateReturns(r, "ok", judged, individualJudges, AllOf(3))
  \/ \E r \in Runs : delayEnds(r) /\ UNCHANGED h_rendered
  \/ \E queryCount \in 1..MaxQueries, checked \in SUBSET Range(availableModels) :
        /\ \A r \in Runs : rb[r].pc = "idle"
        /\ runBulkBenchmark(queryCount, checked, "workspace")
  \/ bulkQueryReturns("ok")
  \/ \E outcome \in {"ok", "error"} : bulkExplainReturns(outcome, EXPLANATION)
  \/ \E outcome \in {"ok", "noscores"}, judged \in BulkScoringVectors :
        bulkEvaluateReturns(outcome, judged)
  \/ \E inputs \in WeightInputs : updateWeightsTotal(inputs)
  \/ recalculateScores

SpecScoring == Init /\ [][NextScoring]_vars

\* Sessions that study what is sent to the judge: every call succeeds and a model
\* returns a short or a long explanation.
NextTruncation ==
  \/ currentResults = NULL /\ bulk.pc = "idle" /\ executeQuery("q1", "ok")
  \/ \E r \in Runs :
        /\ bulk.pc = "idle"
        /\ \A o \in Runs : ~InProgress(o)
        /\ runBenchmark(r, Range(availableModels), "llm-judge", "developer")
  \/ \E c \in calls : fetchResponds(c)
  \/ \E r \in Runs, text \in Explanations : explainReturns(r, "ok", text, AllOf(3))
  \/ \E r \in Runs : evaluateReturns(r, "ok", AllOf(4), "judges", AllOf(3))
  \/ \E r \in Runs : delayEnds(r) /\ UNCHANGED h_rendered
  \/ \E queryCount \in 1..MaxQueries, checked \in SUBSET Range(availableModels) :
        /\ \A r \in Runs : rb[r].pc = "idle"
        /\ runBulkBenchmark(queryCount, checked, "workspace")
  \/ bulkQueryReturns("ok")
  \/ \E text \in Explanations : bulkExplainReturns("ok", text)
  \/ bulkEvaluateReturns("ok", AllOf(4))

SpecTruncation == Init /\ [][NextTruncation]_vars

\* What renderBenchmarkResults showed for each invocation: recorded when the
\* invocation renders.
Rendered ==
  h_rendered' = [r \in Runs |->
                   IF rb'[r].pc = "done" /\ rb[r].pc # "done"
                   THEN benchmarkResults' ELSE h_rendered[r]]

\* Sessions that repeat a benchmark: runBenchmark is invoked for all the models,
\* one invocation after the other; every explain call succeeds and an evaluate
\* call succeeds with the same scores or is rejected.
NextRepeat ==
  \/ currentResults = NULL /\ bulk.pc = "idle" /\ executeQuery("q1", "ok")
  \/ \E r \in Runs, method \in EvaluationMethods :
        /\ \A o \in Runs : ~InProgress(o)
        /\ runBenchmark(r, Range(availableModels), method, "developer")
  \/ \E c \in calls : fetchResponds(c)
  \/ \E r \in Runs, placeholder \in getPlaceholderScores :
        explainReturns(r, "ok", EXPLANATION, placeholder)
  \/ \E r \in Runs, outcome \in {"ok", "reject"}, placeholder \in getPlaceholderScores :
        evaluateReturns(r, outcome, AllOf(4), "judges", placeholder)
  \/ \E r \in Runs : delayEnds(r) /\ Rendered

SpecRepeat == Init /\ [][NextRepeat]_vars

Queries == {"q1", "q2"}

\* Sessions of the query explorer: queries are run, succeed or fail, and the
\* explanation is refreshed while earlier /api/explain calls are still in flight;
\* the calls end in any order, with an explanation or an error.
NextExplorer ==
  \/ \E query \in Queries, outcome \in {"ok", "error"} :
        /\ Len(explanationCalls) < MaxRequests
        /\ executeQuery(query, outcome)
  \/ Len(explanationCalls) < MaxRequests /\ refreshExplanation
  \/ \E k \in 1..MaxRequests, outcome \in {"ok", "error"} : explanationReturns(k, outcome)

SpecExplorer == Init /\ [][NextExplorer]_vars

\* Sessions that export: runBenchmark and the bulk run succeed throughout, the
\* weights are edited and the scores recalculated, and the export buttons are
\* clicked at any moment.
NextExport ==
  \/ currentResults = NULL /\ bulk.pc = "idle" /\ executeQuery("q1", "ok")
  \/ \E r \in Runs, checked \in SUBSET Range(availableModels) :
        /\ bulk.pc = "idle"
        /\ \A o \in Runs : ~InProgress(o)
        /\ runBenchmark(r, checked, "llm-judge", "developer")
  \/ \E c \in calls : fetchResponds(c)
  \/ \E r \in Runs : explainReturns(r, "ok", EXPLANATION, AllOf(3))
  \/ \E r \in Runs : evaluateReturns(r, "ok", AllOf(4), "judges", AllOf(3))
  \/ \E r \in Runs : delayEnds(r) /\ UNCHANGED h_rendered
  \/ exportBenchmarkToJson
  \/ exportBenchmarkToCsv
  \/ \E checked \in SUBSET Range(availableModels) :
        /\ \A r \in Runs : rb[r].pc = "idle"
        /\ runBulkBenchmark(1, checked, "workspace")
  \/ bulkQueryReturns("ok")
  \/ bulkExplainReturns("ok", EXPLANATION)
  \/ \E judged \in JudgeVectors : bulkEvaluateReturns("ok", judged)
  \/ \E inputs \in WeightInputs : updateWeightsTotal(inputs)
  \/ recalculateScores
  \/ exportBulkToJson

SpecExport == Init /\ [][NextExport]_vars

\* Sessions that edit the list of bulk queries.
NextQueryList ==
  \/ addBulkQuery
  \/ \E k \in 1..(MaxClock + exampleQueries) :
        k <= Len(bulkQueryList) /\ removeBulkQuery(bulkQueryList[k])
  \/ \E sameMs \in 1..exampleQueries : loadExampleQueries(sameMs)

SpecQueryList == Init /\ [][NextQueryList]_vars

\* ============================================================ claims
LatestRun(r) == rb[r].pc # "idle" /\ \A o \in Runs : o > r => rb[o].pc = "idle"
Issued(owner, q, m, kind) == <<q, m, kind>> \in Range(h_log[owner])
EntriesOf(list, modelId) == {k \in 1..Len(list) : list[k].model = modelId}
EntriesOfQuery(entries, queryIndex) ==
  {k \in 1..Len(entries) : entries[k].queryIndex = queryIndex}

\* C1: a failed or timed out explain or evaluate call never ends the run.  No
\* invocation of runBenchmark is ended by an error; one that has rendered has
\* issued the explain call of every selected model and pushed exactly one entry
\* per model.  A bulk run that has finished has, for every query whose query call
\* succeeded, issued the explain call of every model and pushed exactly one entry
\* per model, whatever calls failed on the way.
C1_FailureStaysInItsPair ==
  /\ \A r \in Runs :
       /\ rb[r].pc \notin {"raised", "crashed"}
       /\ rb[r].pc = "done" =>
            \A k \in 1..Len(rb[r].selectedModels) :
              /\ Issued(r, 1, k, "explain")
              /\ LatestRun(r) =>
                   Cardinality(EntriesOf(benchmarkResults, rb[r].selectedModels[k])) = 1
  /\ bulk.pc = "done" =>
       \A q \in 1..Len(bulk.queries) :
         bulk.status[q] = "completed" =>
           \A k \in 1..Len(bulk.selectedModels) :
             /\ Issued(BULK, q, k, "explain")
             /\ Cardinality(EntriesOfQuery(bulk.modelResults[k].queries,
                                           bulk.queries[q].index)) = 1

\* A run has rendered although the explain call of its first model failed and
\* the evaluate call of its second model failed.
C1_Witness ==
  \E r \in Runs :
    /\ rb[r].pc = "done"
    /\ LatestRun(r)
    /\ rb[r].evaluationMethod = "llm-judge"
    /\ \E j, k \in 1..Len(benchmarkResults) :
         /\ benchmarkResults[j].model = rb[r].selectedModels[1]
         /\ benchmarkResults[j].explanation = ERROR_TIMEOUT
         /\ benchmarkResults[k].model = rb[r].selectedModels[2]
         /\ benchmarkResults[k].explanation = EXPLANATION
         /\ benchmarkResults[k].h_placeholder

\* An entry that carries an error marker, and one that carries scores and none.
ErrorMarked(e) == "error" \in DOMAIN e
Successful(e) == ~ErrorMarked(e) /\ "scores" \in DOMAIN e

\* C2: with two models selected, the explain call of the first timing out and the
\* second model explained and judged, the rendered result holds exactly one
\* error-marked entry and exactly one successful entry.
C2_OneErrorOneSuccess ==
  \A r \in Runs :
    (/\ rb[r].pc = "done"
     /\ LatestRun(r)
     /\ Len(rb[r].selectedModels) = 2
     /\ \E j, k \in 1..Len(benchmarkResults) :
          /\ benchmarkResults[j].model = rb[r].selectedModels[1]
          /\ benchmarkResults[j].explanation = ERROR_TIMEOUT
          /\ benchmarkResults[k].model = rb[r].selectedModels[2]
          /\ benchmarkResults[k].explanation = EXPLANATION
          /\ ~benchmarkResults[k].h_placeholder)
    => /\ Cardinality({k \in 1..Len(benchmarkResults) : ErrorMarked(benchmarkResults[k])}) = 1
       /\ Cardinality({k \in 1..Len(benchmarkResults) : Successful(benchmarkResults[k])}) = 1

\* What the program stores of an entry: the entry without its history fields.
Stored(e) == [f \in DOMAIN e \ {"h_run", "h_placeholder"} |-> e[f]]

\* C3: a stored result records whether its scores are placeholder: no two
\* stored results carry the same scores, one from the judges and one from
\* getPlaceholderScores.
C3_PlaceholderIsRecorded ==
  benchmarkResults # NULL =>
    \A j, k \in 1..Len(benchmarkResults) :
      Stored(benchmarkResults[j]).scores = Stored(benchmarkResults[k]).scores
        => benchmarkResults[j].h_placeholder = benchmarkResults[k].h_placeholder

\* C4: an invocation with fewer than two selected models, or with no test case,
\* is rejected and issues no remote call.
C4_BadConfigurationRejected ==
  /\ \A r \in Runs :
       (rb[r].pc # "idle" /\ (Len(rb[r].selectedModels) < 2 \/ rb[r].h_testCases = 0))
         => (rb[r].pc = "rejected" /\ h_log[r] = <<>>)
  /\ (bulk.pc # "idle" /\ (Len(bulk.selectedModels) < 2 \/ Len(bulk.queries) = 0))
       => (bulk.pc = "rejected" /\ h_log[BULK] = <<>>)

\* A pair of the bulk run completed with scores and no error.
SomePairSucceeded ==
  \E k \in 1..Len(bulk.modelResults) :
    \E j \in 1..Len(bulk.modelResults[k].queries) :
      LET e == bulk.modelResults[k].queries[j] IN Successful(e)

\* C5: a finished bulk run shows a ranking exactly when some pair succeeded, and
\* reports 'No results to display' exactly when none did.
C5_RunFailsOnlyIfNoPairSucceeded ==
  bulk.pc = "done" =>
    /\ SomePairSucceeded <=> (bulkBenchmarkResults # <<>>)
    /\ SomePairSucceeded <=> (bulkResultsSection = "block")
    /\ ~SomePairSucceeded <=> (toast = "No results to display")

\* A finished bulk run in which a model failed on one query and succeeded on
\* another, and the ranking is displayed.
C5_Witness ==
  /\ bulk.pc = "done"
  /\ bulkResultsSection = "block"
  /\ \E k \in 1..Len(bulk.modelResults) :
       /\ \E j \in 1..Len(bulk.modelResults[k].queries) :
            ErrorMarked(bulk.modelResults[k].queries[j])
       /\ \E j \in 1..Len(bulk.modelResults[k].queries) :
            Successful(bulk.modelResults[k].queries[j])

\* C6: every explain and evaluate call in flight has its timeout armed.
C6_EveryCallHasItsTimeout ==
  \A c \in calls : c.kind \in {"explain", "evaluate"} => c.timer

\* The order of the calls of a run.  A log entry is <<query, model, kind>>; the
\* query call of a query is logged with model 0, before its pairs.
KindRank(kind) == CASE kind = "query" -> 0 [] kind = "explain" -> 1 [] OTHER -> 2
Before(a, b) ==
  \/ a[1] < b[1]
  \/ a[1] = b[1] /\ a[2] < b[2]
  \/ a[1] = b[1] /\ a[2] = b[2] /\ KindRank(a[3]) < KindRank(b[3])

\* C7: a run issues its calls in the order query, model, explain before
\* evaluate, and has at most one call in flight.
C7_OneCallInFlightInOrder ==
  \A o \in Owners :
    /\ Cardinality({c \in calls : c.owner = o}) <= 1
    /\ \A j, k \in 1..Len(h_log[o]) : j < k => Before(h_log[o][j], h_log[o][k])

\* A run has timed out on a call and has a later call in flight.
C7_Witness ==
  \E r \in Runs :
    /\ rb[r].explanation = ERROR_TIMEOUT
    /\ \E c \in calls : c.owner = r /\ c.kind = "evaluate" /\ c.phase = "body"
    /\ Len(h_log[r]) = 4

\* C8: the entries of benchmarkResults were all pushed by one invocation, one
\* per model.
C8_ResultsOfOneInvocation ==
  benchmarkResults # NULL =>
    \A j, k \in 1..Len(benchmarkResults) :
      /\ benchmarkResults[j].h_run = benchmarkResults[k].h_run
      /\ j # k => benchmarkResults[j].model # benchmarkResults[k].model

\* C9: a progress update never ends a run: no invocation stops at a progress
\* update with models left to process.
C9_ProgressNeverEndsARun ==
  \A r \in Runs : rb[r].pc # "crashed"

\* C10: totalSteps is models x test cases x 2 in runBenchmark (one test case)
\* and in runBulkBenchmark.
C10_TotalStepsIsPairsTimesTwo ==
  /\ \A r \in Runs :
       rb[r].pc \notin {"idle", "rejected"}
         => rb[r].totalSteps = Len(rb[r].selectedModels) * 1 * 2
  /\ bulk.pc \notin {"idle", "rejected"}
       => bulk.totalSteps = Len(bulk.selectedModels) * Len(bulk.queries) * 2

\* C11: the reported progress counts resolved steps.  After every step of the
\* program, the completedSteps an invocation reports is at most the number of its
\* generate and evaluate steps that have resolved and at most its totalSteps, and
\* it is not less than what the invocation reported before.
C11_ProgressCountsResolvedSteps ==
  [][/\ \A r \in Runs :
          /\ rb'[r].completedSteps <= rb'[r].h_resolved
          /\ rb'[r].completedSteps <= rb'[r].totalSteps
          /\ rb[r].pc # "idle" => rb'[r].completedSteps >= rb[r].completedSteps
     /\ bulk'.progress[1] <= bulk'.h_resolved
     /\ bulk'.progress[1] <= bulk'.progress[2]
     /\ bulk.pc # "idle" => bulk'.progress[1] >= bulk.progress[1]]_<<rb, bulk>>

\* The pairs of a model in the bulk run, the successful ones among them, and the
\* sum of a dimension over them.
PairsOf(modelId) ==
  LET k == CHOOSE k \in 1..Len(bulk.modelResults) : bulk.modelResults[k].model = modelId
  IN bulk.modelResults[k].queries
SuccessfulPairs(pairs) == {j \in 1..Len(pairs) : Successful(pairs[j])}
RECURSIVE SumOfPairs(_, _, _)
SumOfPairs(pairs, J, dim) ==
  IF J = {} THEN 0
  ELSE LET j == CHOOSE j \in J : TRUE
       IN pairs[j].scores[dim] + SumOfPairs(pairs, J \ {j}, dim)

\* C12: in a finished bulk run every ranked model has a successful pair; its
\* queriesCompleted is the number of its successful pairs, its totalQueries the
\* number of queries of the run, and for every dimension that all its successful
\* pairs carry, its mean is the sum of the dimension over the successful pairs
\* divided by their number.
C12_MeanOverSuccessfulPairs ==
  bulk.pc = "done" =>
    \A k \in 1..Len(bulkBenchmarkResults) :
      LET e == bulkBenchmarkResults[k]
          pairs == PairsOf(e.model)
          J == SuccessfulPairs(pairs)
      IN /\ J # {}
         /\ e.queriesCompleted = Cardinality(J)
         /\ e.totalQueries = Len(bulk.queries)
         /\ \A d \in Dims :
              (\A j \in J : d \in DOMAIN pairs[j].scores) =>
                /\ e.avgScores[d].den > 0
                /\ e.avgScores[d].num * Cardinality(J)
                     = SumOfPairs(pairs, J, d) * e.avgScores[d].den

\* A finished run of two queries ranks a model that failed on one query and a
\* model whose two pairs scored faithfulness 4 and 5.
C12_Witness ==
  /\ bulk.pc = "done"
  /\ \E k \in 1..Len(bulkBenchmarkResults) :
       /\ bulkBenchmarkResults[k].queriesCompleted = 1
       /\ bulkBenchmarkResults[k].totalQueries = 2
       /\ \E j \in 1..Len(bulkBenchmarkResults[k].queries) :
            ErrorMarked(bulkBenchmarkResults[k].queries[j])
  /\ \E k \in 1..Len(bulkBenchmarkResults) :
       /\ bulkBenchmarkResults[k].queriesCompleted = 2
       /\ bulkBenchmarkResults[k].avgScores["faithfulness"] = [num |-> 9, den |-> 2]

\* The weightedScore of a is at least that of b (fractions of positive denominators).
ScoreAtLeast(a, b) ==
  a.weightedScore.num * b.weightedScore.den >= b.weightedScore.num * a.weightedScore.den

\* The sum of the values of a function.
RECURSIVE SumOfValues(_)
SumOfValues(f) ==
  IF DOMAIN f = {} THEN 0
  ELSE LET x == CHOOSE x \in DOMAIN f : TRUE
       IN f[x] + SumOfValues([y \in DOMAIN f \ {x} |-> f[y]])

\* The weighted mean of the mean scores of a ranked entry under the weights w is
\* its weightedScore.  The means of an entry have one denominator.
IsWeightedMean(e, w) ==
  LET n == e.avgScores["faithfulness"].den
      total == SumOfValues([d \in Dims |-> w[d] * e.avgScores[d].num])
  IN /\ e.weightedScore.den > 0
     /\ e.weightedScore.num * n * SumOfValues(w) = total * e.weightedScore.den

\* C13: the ranking is the one of the weights that were current when
\* processBulkResults or recalculateScores last ran: every entry's weightedScore
\* is the weighted mean of its mean scores under those weights, and the list is
\* in non-increasing order of weightedScore.
C13_RankingSortedByCurrentWeights ==
  bulk.pc = "done" =>
    /\ \A k \in 1..Len(bulkBenchmarkResults) :
         IsWeightedMean(bulkBenchmarkResults[k], bulkBenchmarkResults[k].h_weights)
    /\ \A j, k \in 1..Len(bulkBenchmarkResults) :
         j < k => ScoreAtLeast(bulkBenchmarkResults[j], bulkBenchmarkResults[k])

\* After an edit of the weights, recalculateScores has moved the model that was
\* processed second in front of the model that was processed first.
C13_Witness ==
  /\ bulk.pc = "done"
  /\ toast = "Scores recalculated"
  /\ Len(bulkBenchmarkResults) = 2
  /\ bulkBenchmarkResults[1].model = bulk.selectedModels[2]
  /\ bulkBenchmarkResults[1].h_weights = sreWeights
  /\ ~ScoreAtLeast(bulkBenchmarkResults[2], bulkBenchmarkResults[1])

\* C14: of two ranked models with equal weighted total, the one with the higher
\* mean faithfulness comes first, in the bulk ranking and in the rendered list of
\* runBenchmark.
C14_TiesBrokenByFaithfulness ==
  /\ bulk.pc = "done" =>
       \A j, k \in 1..Len(bulkBenchmarkResults) :
         LET a == bulkBenchmarkResults[j]
             b == bulkBenchmarkResults[k]
         IN (j < k /\ ScoreAtLeast(a, b) /\ ScoreAtLeast(b, a)) =>
              a.avgScores["faithfulness"].num * b.avgScores["faithfulness"].den
                >= b.avgScores["faithfulness"].num * a.avgScores["faithfulness"].den
  /\ resultsSection = "results" =>
       \A j, k \in 1..Len(benchmarkResults) :
         (j < k /\ benchmarkResults[j].weightedTotal = benchmarkResults[k].weightedTotal) =>
            benchmarkResults[j].scores.vec["faithfulness"]
              >= benchmarkResults[k].scores.vec["faithfulness"]

\* What is on display of the bulk results.
Displayed ==
  IF bulkResultsSection = "block" /\ bulk.pc = "done"
  THEN displayBulkResults(bulkBenchmarkResults)
  ELSE [leaderboard |-> <<>>, perQuery |-> {}]

\* C15: in a finished bulk run a model without a successful pair is not in the
\* ranking and is on display outside of it.
C15_NoDataModelsReported ==
  bulk.pc = "done" =>
    \A k \in 1..Len(bulk.modelResults) :
      LET data == bulk.modelResults[k] IN
      SuccessfulPairs(data.queries) = {} =>
        /\ \A j \in 1..Len(bulkBenchmarkResults) : bulkBenchmarkResults[j].model # data.model
        /\ \E p \in Displayed.perQuery : p[2] = data.model

\* The weighted total over the present dimensions: sum of weight x score divided
\* by the sum of the weights, as the fraction [num, den].
OverPresent(vec, w) ==
  [num |-> SumOfValues([d \in DOMAIN vec |-> w[d] * vec[d]]),
   den |-> SumOfValues([d \in DOMAIN vec |-> w[d]])]

\* C16: an absent dimension is not counted as a score of 0.  The weightedTotal
\* of an entry of runBenchmark (in hundredths) is the weighted total over the
\* dimensions its scores carry; the weightedScore of a ranked model whose single
\* successful pair lacks a dimension is the weighted total of that pair's scores
\* over the dimensions they carry.
C16_AbsentDimensionNotZero ==
  /\ benchmarkResults # NULL =>
       \A k \in 1..Len(benchmarkResults) :
         LET e == benchmarkResults[k]
             expected == OverPresent(e.scores.vec, benchmarkWeights)
         IN e.weightedTotal * expected.den = 100 * expected.num
  /\ bulk.pc = "done" =>
       \A k \in 1..Len(bulkBenchmarkResults) :
         LET e == bulkBenchmarkResults[k]
             J == SuccessfulPairs(e.queries)
         IN Cardinality(J) = 1 =>
              LET expected == OverPresent(e.queries[CHOOSE j \in J : TRUE].scores, e.h_weights)
              IN e.weightedScore.num * expected.den = expected.num * e.weightedScore.den

\* Two score vectors differ in conciseness only.
DifferInConcisenessOnly(u, v) ==
  /\ DOMAIN u = Dims /\ DOMAIN v = Dims
  /\ u["conciseness"] # v["conciseness"]
  /\ \A d \in Dims \ {"conciseness"} : u[d] = v[d]

\* C17: the weighted total of an entry is computed with the weight profile of
\* the target audience of its run; in a run for analysts two entries whose scores
\* differ in conciseness only have the same weighted total.
C17_TotalUsesAudienceProfile ==
  benchmarkResults # NULL =>
    /\ \A k \in 1..Len(benchmarkResults) :
         LET e == benchmarkResults[k] IN
         DOMAIN e.scores.vec = Dims =>
           e.weightedTotal
             = SumOfValues([d \in Dims |->
                 audienceWeights(rb[e.h_run].targetAudience)[d] * e.scores.vec[d]])
    /\ \A j, k \in 1..Len(benchmarkResults) :
         LET a == benchmarkResults[j]
             b == benchmarkResults[k]
         IN (/\ a.h_run = b.h_run
             /\ rb[a.h_run].targetAudience = "analyst"
             /\ DifferInConcisenessOnly(a.scores.vec, b.scores.vec))
            => a.weightedTotal = b.weightedTotal

\* C18: weights that do not total 100 are never used to score: the weights every
\* ranked entry was last scored with total 100.
C18_InvalidWeightsNeverScore ==
  bulk.pc = "done" =>
    \A k \in 1..Len(bulkBenchmarkResults) :
      WeightsTotal(bulkBenchmarkResults[k].h_weights) = 100

\* C19: all seven scores 5 give a weighted total of exactly 5 under weights that
\* total 100.  The built-in weights and the default currentWeights total 100; an
\* entry of runBenchmark with all scores 5 has weightedTotal 500 hundredths; a
\* ranked model with all means 5, scored with weights that total 100, has
\* weightedScore 5.
C19_AllFivesTotalFive ==
  /\ WeightsTotal(benchmarkWeights) = 100
  /\ WeightsTotal(defaultWeights) = 100
  /\ benchmarkResults # NULL =>
       \A k \in 1..Len(benchmarkResults) :
         benchmarkResults[k].scores.vec = AllOf(5) => benchmarkResults[k].weightedTotal = 500
  /\ bulk.pc = "done" =>
       \A k \in 1..Len(bulkBenchmarkResults) :
         LET e == bulkBenchmarkResults[k] IN
         (/\ WeightsTotal(e.h_weights) = 100
          /\ \A d \in Dims : e.avgScores[d].num = 5 * e.avgScores[d].den)
         => /\ e.weightedScore.den > 0
            /\ e.weightedScore.num = 5 * e.weightedScore.den

\* A model whose two pairs scored all 5 is ranked after a recalculation with an
\* edited profile that totals 100.
C19_Witness ==
  /\ bulk.pc = "done"
  /\ toast = "Scores recalculated"
  /\ \E k \in 1..Len(bulkBenchmarkResults) :
       /\ bulkBenchmarkResults[k].h_weights = sreWeights
       /\ bulkBenchmarkResults[k].queriesCompleted = 2
       /\ \A d \in Dims : bulkBenchmarkResults[k].avgScores[d] = [num |-> 10, den |-> 2]

\* The explanation a run holds when it issues an evaluate call.
ExplanationOf(owner) == IF owner = BULK THEN bulk.explanation ELSE rb[owner].explanation

\* C20: the explanation in every evaluate request is the explanation of the
\* model when that is within the budget, and otherwise its first 3000 characters
\* followed by '... [truncated]'.
C20_JudgeGetsCappedExplanation ==
  \A c \in calls :
    c.kind = "evaluate" =>
      LET original == ExplanationOf(c.owner) IN
      IF Len(original) <= 3000
      THEN c.explanation = original
      ELSE /\ Len(c.explanation) = 3000 + Len("... [truncated]")
           /\ SubSeq(c.explanation, 1, 3000) = SubSeq(original, 1, 3000)
           /\ SubSeq(c.explanation, 3001, Len(c.explanation)) = "... [truncated]"

\* C21: when a bulk run has finished, every selected model holds exactly one
\* entry for every query of the run, also for a query whose execution failed.
C21_OneEntryPerModelAndQuery ==
  bulk.pc = "done" =>
    \A k \in 1..Len(bulk.modelResults) :
      \A q \in 1..Len(bulk.queries) :
        Cardinality(EntriesOfQuery(bulk.modelResults[k].queries, bulk.queries[q].index)) = 1

\* A fraction of positive denominator lies in [1, 5].
InScoreRange(x) == x.den > 0 /\ x.den <= x.num /\ x.num <= 5 * x.den

\* C22: every stored dimension score and every averaged dimension value lies in
\* [1, 5]: the scores of the entries of benchmarkResults, the scores of the
\* successful pairs of the bulk run, and the means of the ranked models.
C22_ScoresWithinOneToFive ==
  /\ benchmarkResults # NULL =>
       \A k \in 1..Len(benchmarkResults) :
         \A d \in DOMAIN benchmarkResults[k].scores.vec :
           benchmarkResults[k].scores.vec[d] \in 1..5
  /\ \A k \in 1..Len(bulk.modelResults) :
       \A j \in SuccessfulPairs(bulk.modelResults[k].queries) :
         \A d \in DOMAIN bulk.modelResults[k].queries[j].scores :
           bulk.modelResults[k].queries[j].scores[d] \in 1..5
  /\ bulk.pc = "done" =>
       \A k \in 1..Len(bulkBenchmarkResults) :
         \A d \in Dims : InScoreRange(bulkBenchmarkResults[k].avgScores[d])

\* The explanation texts getModelExplanation returns for a failed call.
ErrorTexts == {ERROR_TIMEOUT, ERROR_MESSAGE, ERROR_GENERATING}

\* C24: after a failed explain call no evaluate call is issued for the pair and
\* nothing is scored.  No invocation of runBenchmark awaits an evaluate call while
\* it holds an error text, no entry of benchmarkResults carries scores for an
\* error text, and a pair of the bulk run whose explain call failed has no scores
\* and no evaluate call.
C24_NoEvaluationAfterFailedExplain ==
  /\ \A r \in Runs : Awaiting(r, "evaluate") => rb[r].explanation \notin ErrorTexts
  /\ benchmarkResults # NULL =>
       \A k \in 1..Len(benchmarkResults) :
         benchmarkResults[k].explanation \in ErrorTexts
           => "scores" \notin DOMAIN benchmarkResults[k]
  /\ \A k \in 1..Len(bulk.modelResults) :
       \A j \in 1..Len(bulk.modelResults[k].queries) :
         LET e == bulk.modelResults[k].queries[j] IN
         ("h_failed" \in DOMAIN e /\ e.h_failed = "explain") =>
           /\ "scores" \notin DOMAIN e
           /\ \A q \in 1..Len(bulk.queries) :
                bulk.queries[q].index = e.queryIndex => ~Issued(BULK, q, k, "evaluate")

\* C25: when a bulk run has finished, the completedSteps it last reported is its
\* totalSteps.
C25_FinishedRunReportsAllSteps ==
  bulk.pc = "done" =>
    /\ bulk.progress[1] = bulk.totalSteps
    /\ bulk.completedSteps = bulk.totalSteps

\* The elements of a set of indices that carry a dimension, and the sum of the
\* dimension over them; scoresOf[j] is the score vector of index j.
Givers(scoresOf, dim) == {j \in DOMAIN scoresOf : dim \in DOMAIN scoresOf[j]}
RECURSIVE SumGiven(_, _, _)
SumGiven(scoresOf, J, dim) ==
  IF J = {} THEN 0
  ELSE LET j == CHOOSE j \in J : TRUE
       IN scoresOf[j][dim] + SumGiven(scoresOf, J \ {j}, dim)

\* The fraction x is the mean of the dimension over the indices that carry it.
IsMeanOfGivers(x, scoresOf, dim) ==
  LET J == Givers(scoresOf, dim) IN
  J # {} => /\ x.den > 0
            /\ x.num * Cardinality(J) = SumGiven(scoresOf, J, dim) * x.den

\* C23: a judge, or a pair, that gives no value for a dimension is left out of
\* the dimension's average.  Every row of the table of judge scores rendered for
\* an entry of runBenchmark shows the mean over the judges that gave the
\* dimension, and every mean of a ranked model of the bulk run is the mean over
\* its successful pairs that carry the dimension.
C23_MissingValueLeftOutOfAverage ==
  /\ resultsSection = "results" =>
       \A k \in 1..Len(benchmarkResults) :
         LET individualJudges == benchmarkResults[k].scores.individualJudges
             table == formatEvaluatorNotes("notes", individualJudges)
             scoresOf == [j \in 1..Len(individualJudges) |-> individualJudges[j].scores]
         IN /\ Len(table) = Len(DimOrder)
            /\ \A row \in 1..Len(table) :
                 IsMeanOfGivers(table[row].avg, scoresOf, table[row].dim)
  /\ bulk.pc = "done" =>
       \A k \in 1..Len(bulkBenchmarkResults) :
         LET e == bulkBenchmarkResults[k]
             J == SuccessfulPairs(e.queries)
             scoresOf == [j \in J |-> e.queries[j].scores]
         IN \A d \in Dims : IsMeanOfGivers(e.avgScores[d], scoresOf, d)

\* C26: two invocations of runBenchmark with the same models, method and audience
\* whose remote calls had the same outcomes, failures included, render the same
\* scores, the same weighted totals and the same ranking.
SameInputs(a, b) ==
  /\ rb[a].selectedModels = rb[b].selectedModels
  /\ rb[a].evaluationMethod = rb[b].evaluationMethod
  /\ rb[a].targetAudience = rb[b].targetAudience
SameOutcomes(a, b) ==
  \A j \in 1..Len(h_rendered[a]), k \in 1..Len(h_rendered[b]) :
     h_rendered[a][j].model = h_rendered[b][k].model
       => /\ h_rendered[a][j].explanation = h_rendered[b][k].explanation
          /\ h_rendered[a][j].h_placeholder = h_rendered[b][k].h_placeholder
Ranking(list) ==
  [k \in 1..Len(list) |->
     [model |-> list[k].model, scores |-> list[k].scores.vec,
      weightedTotal |-> list[k].weightedTotal]]
BothRendered(a, b) == a # b /\ rb[a].pc = "done" /\ rb[b].pc = "done"
C26_SameOutcomesSameRanking ==
  \A a \in Runs, b \in Runs :
     BothRendered(a, b) /\ SameInputs(a, b) /\ SameOutcomes(a, b)
       => Ranking(h_rendered[a]) = Ranking(h_rendered[b])

\* C27: once no explanation request is in flight, an explanation shown in the
\* panel is the explanation of the most recent successful query: the response of
\* an older request has not replaced that of a newer one.
C27_PanelShowsLatestQuery ==
  explanationContainer.shows = "explanation" /\ explanationCalls = <<>>
    => explanationContainer.query = currentQuery

\* C28: an export of the benchmark results that is invoked while the results of
\* a finished runBenchmark are on the page ends with a download, without an
\* error, and the file holds for each model the scores and the weighted total
\* stored in benchmarkResults; invoked while benchmarkResults is null it shows
\* the toast 'No benchmark results to export' and downloads nothing.
BenchmarkExports == {"exportBenchmarkToJson", "exportBenchmarkToCsv"}
RowsMatch(rows, stored) ==
  /\ Len(rows) = Len(stored)
  /\ \A k \in 1..Len(rows) :
        /\ rows[k].model = stored[k].model
        /\ rows[k].averageScores = stored[k].scores.vec
        /\ rows[k].averageWeightedTotal = stored[k].weightedTotal
C28_ExportAfterRunBenchmark ==
  h_export.handler \in BenchmarkExports
    => /\ h_export.rendered
            => /\ h_export.outcome = "downloaded"
               /\ RowsMatch(download.content, h_export.source)
       /\ h_export.source = NULL => h_export.outcome = "toast"

\* C29: the weights in the file exportBulkToJson writes are the weights with
\* which the exported weightedScore values and the ranking were computed.
C29_ExportedWeightsAreTheWeightsUsed ==
  h_export.handler = "exportBulkToJson" /\ h_export.outcome = "downloaded"
    => \A k \in 1..Len(download.content.results) :
          download.content.results[k].h_weights = download.content.weights

\* C30: the items of the list of bulk queries have distinct ids, also those added
\* within one millisecond, and bulkQueries and the displayed items correspond
\* one to one, so that removing an item removes that item from both.
DistinctIds(list) ==
  \A j \in 1..Len(list), k \in 1..Len(list) : list[j] = list[k] => j = k
C30_QueryItemsDistinctAndInStep ==
  /\ DistinctIds(bulkQueryList)
  /\ DistinctIds(bulkQueries)
  /\ bulkQueries = bulkQueryList

====
